---- MODULE Spec2Model ----
(***************************************************************************)
(* Synchronisation layer of the kernel: counting semaphores, locks with    *)
(* priority donation, and the timer's sleep queue, on one CPU.             *)
(*                                                                         *)
(* Every section that the code runs with interrupts disabled is one        *)
(* atomic action.  Where interrupts are enabled, a statement that reads    *)
(* or writes a field another thread or a handler can write is an action    *)
(* of its own.  Between two actions of a thread the timer interrupt may    *)
(* run and may make the interrupted thread yield on return, except where   *)
(* the thread stands inside a section with interrupts disabled: a thread   *)
(* switched in after thread_block () in sema_down has them off until it    *)
(* has run the loop test again.  Each thread has a stack of frames         *)
(* <<label, argument, ...>>: the head is the step it executes next.        *)
(***************************************************************************)
EXTENDS Integers, Sequences, FiniteSets, TLC

\* ---- bounds of the model ------------------------------------------------
NumThreads == 4
NumLocks == 2
MaxValue == 2
MaxPriority == 2
MaxSleep == 2
\* per scenario: threads taking part, top-level calls, timer ticks
SemaThreads == 3
SemaCalls == 4
SemaTicks == 1
MutexThreads == 2
MutexLocks == 1
MutexCalls == 3
MutexTicks == 2
LockThreads == 3
LockCalls == 4
LockTicks == 2
WakeCalls == 5
WakeTicks == 1
CondThreads == 3
CondLocks == 1
CondCalls == 7
CondTicks == 1
FairThreads == 3
FairCalls == 6
FairTicks == 1
MesaThreads == 3
MesaCalls == 8
IntrThreads == 2
IntrThreadCalls == 3
IntrTicks == 1
IntrCalls == 2
PingRounds == 3
PingTicks == 2
TimerThreads == 2
TimerCalls == 2
TimerTicks == 3

\* ---- identifiers --------------------------------------------------------
NULL == 0
\* The idle thread, which runs when no other thread is ready.
Idle == NumThreads + 1
SleepQ == 0
\* The sentinels of the sleep queue (struct list: head and tail).
list_head == 0 - 1
list_tail == 0 - 2
\* Identifier of the waiter queue of condition c in the history records.
CondQ(c) == 0 - c

Threads == 1..NumThreads
\* One plain semaphore; the semaphores after it are the locks'.
Semas == {1}
Locks == 1..NumLocks
LockSema(l) == Cardinality(Semas) + l
\* After the locks' semaphores come the semaphores of the semaphore_elem that
\* cond_wait keeps on the stack of each thread.
WaiterSema(t) == Cardinality(Semas) + NumLocks + t
\* Last come sema[0] and sema[1] of sema_self_test.
TestSema(i) == Cardinality(Semas) + NumLocks + NumThreads + 1 + i
SemaIds == 1..TestSema(1)
LockOfSema(s) == s - Cardinality(Semas)
IsLockSema(s) == s > Cardinality(Semas) /\ s <= Cardinality(Semas) + NumLocks
IsWaiterSema(s) == s > Cardinality(Semas) + NumLocks /\ s < TestSema(0)
IsTestSema(s) == s >= TestSema(0)
Conds == {1}
\* The key under which the history keeps the callers of timer_sleep.
SleepCalls == 0 - Cardinality(Conds) - 1
Priorities == 0..MaxPriority
Durations == (-1)..MaxSleep

VARIABLES
  value,            \* sema->value, per semaphore
  waiters,          \* sema->waiters, per semaphore: sequence of threads
  holder,           \* lock->holder, per lock (NULL when unlocked)
  priority,         \* thread->priority (base priority)
  eff_priority,     \* thread->eff_priority (donated priority)
  status,           \* thread->status: "running", "ready" or "blocked"
  cur,              \* thread_current (), or Idle
  stack,            \* per thread: frames still to execute
  op,               \* per thread: the call in progress or last returned
  retval,           \* per thread: boolean result of the last try call
  ticks,            \* timer ticks since boot
  sleeping_threads, \* the sleep queue: next and prev of its elements
  wakeup_time,      \* thread->wakeup_time
  panic,            \* "none", or the fatal assertion / fault that halted
  budget,           \* top-level calls the scenario still allows
  tick_limit,       \* timer ticks the scenario allows
  init_value,       \* history: value given to sema_init
  permit,           \* history: downs of a thread not matched by its ups
  extra,            \* history: ups by threads that held no permit
  owns,             \* history: locks a thread acquired and has not released
  donated,          \* history: donations received through a lock since acquiring it
  used,             \* history: lock operations called on each lock
  tried,            \* history: per lock and thread, its last lock_try_acquire result
  arrivals,         \* history: per queue, threads in the order they blocked
  late,             \* history: a thread blocked on the queue after a wake
  wakes,            \* history: the wake events, in order
  cond_waiters,     \* cond->waiters, per condition: sequence of waiting threads
  sema_priority,    \* waiter.semaphore.priority of a thread's semaphore_elem
  intr_calls,       \* calls made so far by external interrupt handlers
  woke              \* history: the thread a thread woke and has not yielded to

vars == <<value, waiters, holder, priority, eff_priority, status, cur, stack,
          op, retval, ticks, sleeping_threads, wakeup_time, panic, budget,
          tick_limit, init_value, permit, extra, owns, donated, used,
          tried, arrivals, late, wakes, cond_waiters, sema_priority,
          intr_calls, woke>>

semaVars == <<value, waiters>>
timerVars == <<ticks, sleeping_threads, wakeup_time>>
constVars == <<priority, tick_limit, init_value>>
condVars == <<cond_waiters, sema_priority>>
histVars == <<permit, extra, owns, donated, used, tried, arrivals, late,
              wakes>>

\* ---- sequences ----------------------------------------------------------
Range(s) == {s[i] : i \in 1..Len(s)}

\* Position of the last occurrence of x in s (0 when absent).
LastPos(s, x) ==
  LET P == {i \in 1..Len(s) : s[i] = x}
  IN IF P = {} THEN 0 ELSE CHOOSE i \in P : \A j \in P : j <= i

\* list_insert_ordered: x goes before the first element e with less (x, e);
\* P is the set of positions of the elements e of list with less (x, e).
list_insert_ordered(list, x, P) ==
  LET k == IF P = {} THEN Len(list) + 1
           ELSE CHOOSE i \in P : \A j \in P : i <= j
  IN SubSeq(list, 1, k - 1) \o <<x>> \o SubSeq(list, k, Len(list))

\* ---- priorities ---------------------------------------------------------
\* (t->eff_priority > t->priority) ? t->eff_priority : t->priority
EffectivePriority(t) ==
  IF eff_priority[t] > priority[t] THEN eff_priority[t] ELSE priority[t]

\* A faulty variant of the comparison: "greater than or equal", which puts a new waiter before its equals.
priority_ordering_wait_ge(a, b) == EffectivePriority(a) >= EffectivePriority(b)

priority_ordering_wait(a, b) == EffectivePriority(a) > EffectivePriority(b)

\* compare of the sleep queue: ascending wakeup_time.
compare(a, b) == wakeup_time[a] < wakeup_time[b]

\* ---- scheduler (external to the core) -----------------------------------
ReadyThreads(st) == {t \in Threads : st[t] = "ready"}

\* The thread the scheduler may switch to: any ready thread, the idle
\* thread when there is none.
next_thread_to_run(st) == IF ReadyThreads(st) = {} THEN {Idle} ELSE ReadyThreads(st)

\* schedule (): switch to a next thread, given the statuses st in which the
\* outgoing thread is already marked ready or blocked.
schedule(st) ==
  \E n \in next_thread_to_run(st) :
    /\ cur' = n
    /\ status' = IF n = Idle THEN st ELSE [st EXCEPT ![n] = "running"]

\* thread_block (): the running thread t stops running.
thread_block(t) == schedule([status EXCEPT ![t] = "blocked"])

\* thread_yield (): the running thread t goes back to the ready set.
thread_yield(t) == schedule([status EXCEPT ![t] = "ready"])

\* A wake event: thread t taken from queue q.
WakeEvent(t, q, best) ==
  [t |-> t, q |-> q, at |-> ticks, due |-> wakeup_time[t],
   pri |-> EffectivePriority(t), blocked |-> status[t] = "blocked",
   best |-> best]

\* t is, among the members of queue list, one of highest effective priority
\* and the earliest-arrived of those.
IsBest(t, list, q) ==
  \A u \in Range(list) \ {t} :
    \/ EffectivePriority(t) > EffectivePriority(u)
    \/ /\ EffectivePriority(t) = EffectivePriority(u)
       /\ LastPos(arrivals[q], t) < LastPos(arrivals[q], u)

Running(t) == panic = "none" /\ cur = t /\ t # Idle
At(t, label) == Running(t) /\ stack[t] # <<>> /\ stack[t][1][1] = label
Arg(t) == stack[t][1][2]
Rest(t) == Tail(stack[t])
AtTop(t) == Running(t) /\ stack[t] = <<>> /\ budget > 0

\* intr_get_level () == INTR_ON in the running thread.  A thread that has
\* blocked in sema_down stands after thread_block (), between intr_disable
\* and intr_set_level: when it is switched in, interrupts are off until it
\* has run the loop test.  The idle thread waits with interrupts on.
intr_enabled ==
  ~(cur \in Threads /\ stack[cur] # <<>> /\ stack[cur][1][1] = "thread_block")

\* ---- initial states -----------------------------------------------------
\* The threads 1..n take part: thread 1 is running, the others are ready.
\* The remaining threads stay blocked throughout.  Threads are
\* interchangeable and priorities matter only through comparisons, so base
\* priorities are drawn non-decreasing in the thread number, from 0 and
\* without gaps.  Semaphores are as sema_init leaves them, the plain ones
\* with a value in vals, the locks' with 1 (lock_init), those of
\* sema_self_test with 0.
CanonicalPriorities(n) ==
  {p \in [Threads -> Priorities] :
     /\ p[1] = 0
     /\ \A t \in 1..(n - 1) : p[t + 1] - p[t] \in {0, 1}
     /\ \A t \in Threads : t > n => p[t] = MaxPriority}

\* The same with the base priorities drawn from pris.
InitWith(n, calls, tlimit, vals, pris) ==
  /\ value \in {v \in [SemaIds -> vals \cup {0, 1}] :
                  \A s \in SemaIds : IF IsLockSema(s) THEN v[s] = 1
                                     ELSE IF IsWaiterSema(s) \/ IsTestSema(s)
                                     THEN v[s] = 0
                                     ELSE v[s] \in vals}
  /\ waiters = [s \in SemaIds |-> <<>>]
  /\ holder = [l \in Locks |-> NULL]
  /\ priority \in pris
  /\ eff_priority = [t \in Threads |-> 0]
  /\ status = [t \in Threads |-> IF t = 1 THEN "running"
                                 ELSE IF t <= n THEN "ready" ELSE "blocked"]
  /\ cur = 1
  /\ stack = [t \in Threads |-> <<>>]
  /\ op = [t \in Threads |-> <<"none", 0>>]
  /\ retval = [t \in Threads |-> FALSE]
  /\ ticks = 0
  /\ sleeping_threads =
       [next |-> [e \in Threads \cup {list_head, list_tail} |->
                    IF e = list_head THEN list_tail ELSE NULL],
        prev |-> [e \in Threads \cup {list_head, list_tail} |->
                    IF e = list_tail THEN list_head ELSE NULL]]
  /\ wakeup_time = [t \in Threads |-> 0]
  /\ panic = "none"
  /\ budget = calls
  /\ tick_limit = tlimit
  /\ init_value = value
  /\ permit = [t \in Threads |-> [s \in SemaIds |-> 0]]
  /\ extra = [s \in SemaIds |-> 0]
  /\ owns = [t \in Threads |-> {}]
  /\ donated = [t \in Threads |-> {}]
  /\ used = [l \in Locks |-> {}]
  /\ tried = [l \in Locks |-> [t \in Threads |-> "none"]]
  /\ arrivals = [q \in {SleepQ, SleepCalls} \cup SemaIds \cup {CondQ(c) : c \in Conds} |-> <<>>]
  /\ late = [q \in {SleepQ, SleepCalls} \cup SemaIds \cup {CondQ(c) : c \in Conds} |-> FALSE]
  /\ wakes = <<>>
  /\ cond_waiters = [c \in Conds |-> <<>>]
  /\ sema_priority = [t \in Threads |-> 0]
  /\ intr_calls = 0
  /\ woke = [t \in Threads |-> NULL]

InitFor(n, calls, tlimit, vals) ==
  InitWith(n, calls, tlimit, vals, CanonicalPriorities(n))

\* ---- semaphores ---------------------------------------------------------
\* Each body below is one atomic step of thread t; rest is the stack that
\* remains once the step's frame is done.  A call action runs the first step
\* of the called function, a resume action the step at the head of the stack.
\* A failed assertion halts the kernel with the frame left in place.

\* The loop test of sema_down: true when the caller has to wait.
sema_down_waits(s) == value[s] = 0

\* sema_down, from intr_disable to thread_block or to intr_set_level.  A
\* thread that blocks is left at the frame thread_block: resumed by
\* thread_unblock, it runs the loop test again, interrupts still off.  The
\* decrement is only reached with a positive value, so it never wraps.
SemaDown(t, s, rest) ==
  /\ IF sema_down_waits(s)
     THEN /\ waiters' = [waiters EXCEPT
               ![s] = list_insert_ordered(@, t,
                        {i \in 1..Len(@) : priority_ordering_wait(t, @[i])})]
          /\ thread_block(t)
          /\ stack' = [stack EXCEPT ![t] = <<<<"thread_block", s>>>> \o rest]
          /\ arrivals' = [arrivals EXCEPT ![s] = Append(@, t)]
          /\ late' = [late EXCEPT
               ![s] = @ \/ (\E i \in 1..Len(wakes) : wakes[i].q = s)]
          /\ UNCHANGED <<value, permit>>
     ELSE /\ value' = [value EXCEPT ![s] = @ - 1]
          /\ stack' = [stack EXCEPT ![t] = rest]
          /\ permit' = [permit EXCEPT ![t][s] = @ + 1]
          /\ UNCHANGED <<waiters, status, cur, arrivals, late>>
  /\ UNCHANGED <<holder, eff_priority, retval, timerVars, panic, constVars, condVars, intr_calls, woke,
                 extra, owns, donated, used, tried, wakes>>

\* A faulty variant of the test: it lets a semaphore at 0 be decremented.
sema_try_down_ok_ge(s) == value[s] >= 0

\* The test of sema_try_down: true when the semaphore can be decremented.
sema_try_down_ok(s) == value[s] > 0

\* sema_try_down, whole (interrupts are disabled throughout).
SemaTryDown(t, s, rest) ==
  /\ IF sema_try_down_ok(s)
     THEN /\ value' = [value EXCEPT ![s] = @ - 1]
          /\ retval' = [retval EXCEPT ![t] = TRUE]
          /\ permit' = [permit EXCEPT ![t][s] = @ + 1]
     ELSE /\ retval' = [retval EXCEPT ![t] = FALSE]
          /\ UNCHANGED <<value, permit>>
  /\ stack' = [stack EXCEPT ![t] = rest]
  /\ UNCHANGED <<waiters, status, cur, extra, arrivals, late, wakes>>

\* A faulty variant: sema_up finds no waiter.
sema_up_unwait_none(s) == NULL

\* The waiter sema_up takes: the front of the queue, NULL when it is empty.
sema_up_unwait(s) == IF waiters[s] # <<>> THEN Head(waiters[s]) ELSE NULL

\* A faulty variant: sema_up never yields.
sema_up_yields_never(unwait) == FALSE

\* if (unwait != NULL) { ... thread_yield (); }: whether sema_up yields
\* after it has restored the interrupt level.
sema_up_yields(unwait) == unwait # NULL

\* sema_up, from intr_disable to intr_set_level: pops the front waiter,
\* unblocks it and increments the value.  thread_unblock asserts that the
\* waiter is blocked: when it is not, the kernel halts there, the increment
\* not reached.  When a thread was woken, thread_yield () is still to run.
SemaUp(t, s, rest) ==
  /\ IF sema_up_unwait(s) # NULL /\ status[sema_up_unwait(s)] # "blocked"
     THEN /\ waiters' = [waiters EXCEPT ![s] = Tail(@)]
          /\ wakes' = Append(wakes, WakeEvent(sema_up_unwait(s), s,
                                IsBest(sema_up_unwait(s), waiters[s], s)))
          /\ panic' = "thread_unblock"
          /\ stack' = [stack EXCEPT ![t] = <<<<"sema_up", s>>>> \o rest]
          /\ UNCHANGED <<value, status, woke, permit, extra, owns>>
     ELSE /\ IF sema_up_unwait(s) # NULL
             THEN /\ waiters' = [waiters EXCEPT ![s] = Tail(@)]
                  /\ wakes' = Append(wakes, WakeEvent(sema_up_unwait(s), s,
                                        IsBest(sema_up_unwait(s), waiters[s], s)))
                  /\ status' = [status EXCEPT ![sema_up_unwait(s)] = "ready"]
                  /\ woke' = [woke EXCEPT ![t] = sema_up_unwait(s)]
             ELSE UNCHANGED <<waiters, wakes, status, woke>>
          /\ stack' = [stack EXCEPT ![t] =
                          IF sema_up_yields(sema_up_unwait(s))
                          THEN <<<<"sema_up_yield", s>>>> \o rest
                          ELSE rest]
          /\ value' = [value EXCEPT ![s] = @ + 1]
          /\ IF permit[t][s] > 0
             THEN /\ permit' = [permit EXCEPT ![t][s] = @ - 1]
                  /\ extra' = extra
             ELSE /\ extra' = [extra EXCEPT ![s] = @ + 1]
                  /\ permit' = permit
          /\ owns' = IF IsLockSema(s) THEN [owns EXCEPT ![t] = @ \ {LockOfSema(s)}]
                     ELSE owns
          /\ panic' = panic
  /\ UNCHANGED <<holder, eff_priority, cur, retval, timerVars, constVars, condVars, intr_calls,
                 donated, used, tried, arrivals, late>>

Called(t, name, arg) ==
  /\ op' = [op EXCEPT ![t] = <<name, arg>>]
  /\ budget' = budget - 1

Resumed == UNCHANGED <<op, budget>>

CallSemaDown(t, s) ==
  /\ AtTop(t)
  /\ SemaDown(t, s, <<>>)
  /\ Called(t, "sema_down", s)

CallSemaTryDown(t, s) ==
  /\ AtTop(t)
  /\ SemaTryDown(t, s, <<>>)
  /\ Called(t, "sema_try_down", s)
  /\ UNCHANGED <<holder, eff_priority, timerVars, panic, constVars, condVars, intr_calls, woke, owns,
                 donated, used, tried>>

CallSemaUp(t, s) ==
  /\ AtTop(t)
  /\ SemaUp(t, s, <<>>)
  /\ Called(t, "sema_up", s)

\* sema_down as called by lock_acquire and cond_wait, and the rest of the
\* loop for a thread woken after thread_block ().
sema_down(t) ==
  /\ At(t, "sema_down") \/ At(t, "thread_block")
  /\ SemaDown(t, Arg(t), Rest(t))
  /\ Resumed

\* sema_up as called by lock_release.
sema_up(t) ==
  /\ At(t, "sema_up")
  /\ SemaUp(t, Arg(t), Rest(t))
  /\ Resumed

\* The end of sema_up when a thread was woken: thread_yield (), then return.
sema_up_yield(t) ==
  /\ At(t, "sema_up_yield")
  /\ thread_yield(t)
  /\ woke' = [woke EXCEPT ![t] = NULL]
  /\ stack' = [stack EXCEPT ![t] = Rest(t)]
  /\ Resumed
  /\ UNCHANGED <<semaVars, holder, eff_priority, retval, timerVars, panic,
                 constVars, condVars, intr_calls, histVars>>

\* ---- locks --------------------------------------------------------------
\* A faulty variant: true whenever the lock has a holder.
lock_held_by_some_thread(t, l) == holder[l] # NULL

\* lock_held_by_current_thread (lock), for the running thread t.
lock_held_by_current_thread(t, l) == holder[l] = t

\* The test of the conditional expression that computes the donation of
\* thread t: thread_current ()->eff_priority > thread_current ()->priority.
donation_test(t) == eff_priority[t] > priority[t]

\* int donation: the operand of the conditional expression that the test
\* gt selects, read after the test.
donation(t, gt) == IF gt THEN eff_priority[t] ELSE priority[t]

\* The assertions of lock_acquire.  Interrupts are enabled from here to
\* sema_down: each read or write of a shared field below is a step of its
\* own.
LockAcquire(t, l, rest) ==
  /\ IF lock_held_by_current_thread(t, l)
     THEN /\ panic' = "lock_acquire"
          /\ stack' = [stack EXCEPT ![t] = <<<<"lock_acquire", l>>>> \o rest]
     ELSE /\ panic' = panic
          /\ stack' = [stack EXCEPT ![t] = <<<<"lock_acquire_test", l>>>> \o rest]
  /\ used' = [used EXCEPT ![l] = @ \cup {"lock_acquire"}]
  /\ UNCHANGED <<semaVars, holder, eff_priority, status, cur, retval,
                 timerVars, constVars, condVars, intr_calls, woke, permit, extra, owns, donated, tried,
                 arrivals, late, wakes>>

\* A step of lock_acquire that reads shared fields and changes only the
\* position of thread t, to the frames next.
LockAcquireReads(t, next) ==
  /\ stack' = [stack EXCEPT ![t] = next \o Rest(t)]
  /\ Resumed
  /\ UNCHANGED <<semaVars, holder, eff_priority, status, cur, retval,
                 timerVars, panic, constVars, condVars, intr_calls, woke,
                 histVars>>

\* if (lock->holder != NULL): on to the donation, or straight to sema_down.
lock_acquire_test(t) ==
  /\ At(t, "lock_acquire_test")
  /\ LockAcquireReads(t,
       IF holder[Arg(t)] # NULL
       THEN <<<<"lock_acquire_compare", Arg(t)>>>>
       ELSE <<<<"sema_down", LockSema(Arg(t))>>, <<"lock_acquire_holder", Arg(t)>>>>)

\* The test of int donation = (... > ...) ? ... : ...
lock_acquire_compare(t) ==
  /\ At(t, "lock_acquire_compare")
  /\ LockAcquireReads(t, <<<<"lock_acquire_donation", Arg(t), donation_test(t)>>>>)

\* The value of int donation, read once the test is made.
lock_acquire_donation(t) ==
  /\ At(t, "lock_acquire_donation")
  /\ LockAcquireReads(t,
       <<<<"lock_acquire_load", Arg(t), donation(t, stack[t][1][3])>>>>)

\* lock->holder of lock->holder->eff_priority = donation: the field is
\* read again, nothing orders this read with the test of lock->holder or
\* with lock_release.
lock_acquire_load(t) ==
  /\ At(t, "lock_acquire_load")
  /\ LockAcquireReads(t,
       <<<<"lock_acquire_donate", Arg(t), holder[Arg(t)], stack[t][1][3]>>>>)

\* t is between lock->holder->eff_priority = 0 and lock->holder = NULL of
\* lock_release (l).
Releasing(t, l) == stack[t] # <<>> /\ stack[t][1] = <<"lock_release_clear", l>>

\* The write of lock->holder->eff_priority = donation, through the holder
\* that was read: it faults when that one is NULL.  The fields of the idle
\* thread are not part of the state.
lock_acquire_donate(t) ==
  /\ At(t, "lock_acquire_donate")
  /\ IF stack[t][1][3] = NULL
     THEN /\ panic' = "null_holder"
          /\ UNCHANGED <<eff_priority, stack, donated>>
     ELSE /\ IF stack[t][1][3] \in Threads
             THEN /\ eff_priority' = [eff_priority EXCEPT
                       ![stack[t][1][3]] = stack[t][1][4]]
                  /\ donated' = [donated EXCEPT ![stack[t][1][3]] = @ \cup
                       {<<Arg(t), IF holder[Arg(t)] = stack[t][1][3]
                                     /\ ~Releasing(stack[t][1][3], Arg(t))
                                  THEN "held" ELSE "late">>}]
             ELSE UNCHANGED <<eff_priority, donated>>
          /\ stack' = [stack EXCEPT ![t] =
               <<<<"sema_down", LockSema(Arg(t))>>, <<"lock_acquire_holder", Arg(t)>>>>
               \o Rest(t)]
          /\ panic' = panic
  /\ Resumed
  /\ UNCHANGED <<semaVars, holder, status, cur, retval, timerVars, constVars, condVars, intr_calls, woke,
                 permit, extra, owns, used, tried, arrivals, late, wakes>>

\* lock->holder = thread_current (), then return.
lock_acquire_holder(t) ==
  /\ At(t, "lock_acquire_holder")
  /\ holder' = [holder EXCEPT ![Arg(t)] = t]
  /\ owns' = [owns EXCEPT ![t] = @ \cup {Arg(t)}]
  /\ donated' = [donated EXCEPT ![t] = @ \ ({Arg(t)} \X {"held", "late"})]
  /\ stack' = [stack EXCEPT ![t] = Rest(t)]
  /\ Resumed
  /\ UNCHANGED <<semaVars, eff_priority, status, cur, retval, timerVars,
                 panic, constVars, condVars, intr_calls, woke, permit, extra, used, tried, arrivals,
                 late, wakes>>

\* The assertions of lock_try_acquire, made with the interrupt level of
\* the caller.
LockTryAcquire(t, l, rest) ==
  /\ IF lock_held_by_current_thread(t, l)
     THEN /\ panic' = "lock_try_acquire"
          /\ stack' = [stack EXCEPT ![t] = <<<<"lock_try_acquire", l>>>> \o rest]
     ELSE /\ panic' = panic
          /\ stack' = [stack EXCEPT ![t] = <<<<"lock_try_acquire_down", l>>>> \o rest]
  /\ used' = [used EXCEPT ![l] = @ \cup {"lock_try_acquire"}]
  /\ UNCHANGED <<semaVars, holder, eff_priority, status, cur, retval,
                 timerVars, constVars, condVars, intr_calls, woke, permit,
                 extra, owns, donated, tried, arrivals, late, wakes>>

\* success = sema_try_down (&lock->semaphore);
lock_try_acquire_down(t) ==
  /\ At(t, "lock_try_acquire_down")
  /\ SemaTryDown(t, LockSema(Arg(t)), <<<<"lock_try_acquire_holder", Arg(t)>>>> \o Rest(t))
  /\ Resumed
  /\ UNCHANGED <<holder, eff_priority, timerVars, panic, constVars, condVars,
                 intr_calls, woke, owns, donated, used, tried>>

\* A faulty variant of the test: the holder is recorded whatever sema_try_down returned.
try_success_always(t) == TRUE

\* success, as lock_try_acquire tests it after sema_try_down.
try_success(t) == retval[t]

\* if (success) lock->holder = thread_current (); return success.
lock_try_acquire_holder(t) ==
  /\ At(t, "lock_try_acquire_holder")
  /\ IF try_success(t)
     THEN /\ holder' = [holder EXCEPT ![Arg(t)] = t]
          /\ owns' = [owns EXCEPT ![t] = @ \cup {Arg(t)}]
          /\ donated' = [donated EXCEPT ![t] = @ \ ({Arg(t)} \X {"held", "late"})]
     ELSE UNCHANGED <<holder, owns, donated>>
  /\ tried' = [tried EXCEPT ![Arg(t)][t] = IF retval[t] THEN "true" ELSE "false"]
  /\ stack' = [stack EXCEPT ![t] = Rest(t)]
  /\ Resumed
  /\ UNCHANGED <<semaVars, eff_priority, status, cur, retval, timerVars,
                 panic, constVars, condVars, intr_calls, woke, permit, extra, used, arrivals, late, wakes>>

\* lock_release up to lock->holder->eff_priority = 0.
LockRelease(t, l, rest) ==
  /\ IF ~lock_held_by_current_thread(t, l)
     THEN /\ panic' = "lock_release"
          /\ stack' = [stack EXCEPT ![t] = <<<<"lock_release", l>>>> \o rest]
          /\ UNCHANGED eff_priority
     ELSE /\ panic' = panic
          /\ eff_priority' = [eff_priority EXCEPT ![holder[l]] = 0]
          /\ stack' = [stack EXCEPT ![t] = <<<<"lock_release_clear", l>>>> \o rest]
  /\ used' = [used EXCEPT ![l] = @ \cup {"lock_release"}]
  /\ UNCHANGED <<semaVars, holder, status, cur, retval, timerVars, constVars, condVars, intr_calls, woke,
                 permit, extra, owns, donated, tried, arrivals, late, wakes>>

\* lock->holder = NULL; sema_up comes next.
lock_release_clear(t) ==
  /\ At(t, "lock_release_clear")
  /\ holder' = [holder EXCEPT ![Arg(t)] = NULL]
  /\ stack' = [stack EXCEPT ![t] = <<<<"sema_up", LockSema(Arg(t))>>>> \o Rest(t)]
  /\ Resumed
  /\ UNCHANGED <<semaVars, eff_priority, status, cur, retval, timerVars,
                 panic, constVars, condVars, intr_calls, woke, histVars>>

CallLockAcquire(t, l) ==
  /\ AtTop(t)
  /\ LockAcquire(t, l, <<>>)
  /\ Called(t, "lock_acquire", l)

CallLockTryAcquire(t, l) ==
  /\ AtTop(t)
  /\ LockTryAcquire(t, l, <<>>)
  /\ Called(t, "lock_try_acquire", l)

CallLockRelease(t, l) ==
  /\ AtTop(t)
  /\ LockRelease(t, l, <<>>)
  /\ Called(t, "lock_release", l)

\* lock_release and lock_acquire as cond_wait calls them.
lock_release(t) ==
  /\ At(t, "lock_release")
  /\ LockRelease(t, Arg(t), Rest(t))
  /\ Resumed

lock_acquire(t) ==
  /\ At(t, "lock_acquire")
  /\ LockAcquire(t, Arg(t), Rest(t))
  /\ Resumed

\* ---- condition variables ------------------------------------------------
\* A frame of a condition function is <<label, cond, lock>>.
CondLock(t) == stack[t][1][3]

\* A faulty variant of the comparison: a new entry goes before its equals.
priority_sort_cond_waiter_ge(a, b) == a >= b

\* priority_sort_cond_waiter, on the priority tags of two semaphore_elem.
priority_sort_cond_waiter(a, b) == a > b

\* A faulty variant of the continuation: the lock is not taken again.
cond_wait_rest_unlocked(t, l) ==
  <<<<"lock_release", l>>, <<"sema_down", WaiterSema(t)>>>>

\* What cond_wait does after it has enqueued its semaphore_elem:
\* lock_release (lock); sema_down (&waiter.semaphore); lock_acquire (lock).
cond_wait_rest(t, l) ==
  <<<<"lock_release", l>>, <<"sema_down", WaiterSema(t)>>, <<"lock_acquire", l>>>>

\* cond_wait up to sema_init: the assertions, then sema_init of the
\* waiter's semaphore.  Interrupts are enabled.
CondWait(t, c, l, rest) ==
  /\ IF ~lock_held_by_current_thread(t, l)
     THEN /\ panic' = "cond_wait"
          /\ stack' = [stack EXCEPT ![t] = <<<<"cond_wait", c, l>>>> \o rest]
          /\ UNCHANGED <<value, waiters>>
     ELSE /\ panic' = panic
          /\ value' = [value EXCEPT ![WaiterSema(t)] = 0]
          /\ waiters' = [waiters EXCEPT ![WaiterSema(t)] = <<>>]
          /\ stack' = [stack EXCEPT ![t] = <<<<"cond_wait_compare", c, l>>>> \o rest]
  /\ UNCHANGED <<holder, eff_priority, status, cur, retval, timerVars,
                 constVars, condVars, intr_calls, woke, histVars>>

\* The test of int curr_priority = (... > ...) ? ... : ..., the expression
\* of the donation in lock_acquire.
cond_wait_compare(t) ==
  /\ At(t, "cond_wait_compare")
  /\ stack' = [stack EXCEPT ![t] =
       <<<<"cond_wait_priority", Arg(t), CondLock(t), donation_test(t)>>>> \o Rest(t)]
  /\ Resumed
  /\ UNCHANGED <<semaVars, holder, eff_priority, status, cur, retval,
                 timerVars, panic, constVars, condVars, intr_calls, woke,
                 histVars>>

\* The value of curr_priority, read once the test is made, and
\* waiter.semaphore.priority = curr_priority.
cond_wait_priority(t) ==
  /\ At(t, "cond_wait_priority")
  /\ sema_priority' = [sema_priority EXCEPT ![t] = donation(t, stack[t][1][4])]
  /\ stack' = [stack EXCEPT ![t] =
       <<<<"cond_wait_insert", Arg(t), CondLock(t)>>>> \o Rest(t)]
  /\ Resumed
  /\ UNCHANGED <<semaVars, holder, eff_priority, status, cur, retval,
                 timerVars, panic, constVars, cond_waiters, intr_calls, woke,
                 histVars>>

\* list_insert_ordered (&cond->waiters, &waiter.elem,
\* priority_sort_cond_waiter, NULL).  The caller holds the lock, which is
\* what protects cond->waiters.
cond_wait_insert(t) ==
  /\ At(t, "cond_wait_insert")
  /\ cond_waiters' = [cond_waiters EXCEPT
       ![Arg(t)] = list_insert_ordered(@, t,
                {i \in 1..Len(@) :
                   priority_sort_cond_waiter(sema_priority[t],
                                             sema_priority[@[i]])})]
  /\ arrivals' = [arrivals EXCEPT ![CondQ(Arg(t))] = Append(@, t)]
  /\ stack' = [stack EXCEPT ![t] = cond_wait_rest(t, CondLock(t)) \o Rest(t)]
  /\ Resumed
  /\ UNCHANGED <<semaVars, holder, eff_priority, status, cur, retval,
                 timerVars, panic, constVars, sema_priority, intr_calls, woke,
                 permit, extra, owns, donated, used, tried, late, wakes>>

\* A faulty variant: the entry signalled is the back of the queue.
cond_signal_front_back(c) == cond_waiters[c][Len(cond_waiters[c])]

\* The semaphore_elem cond_signal takes: the front of cond->waiters.
cond_signal_front(c) == Head(cond_waiters[c])

\* cond_signal up to list_pop_front; the sema_up of the popped waiter's
\* semaphore comes next.
CondSignal(t, c, l, rest) ==
  /\ IF ~lock_held_by_current_thread(t, l)
     THEN /\ panic' = "cond_signal"
          /\ stack' = [stack EXCEPT ![t] = <<<<"cond_signal", c, l>>>> \o rest]
          /\ UNCHANGED cond_waiters
     ELSE /\ panic' = panic
          /\ IF cond_waiters[c] # <<>>
             THEN /\ cond_waiters' = [cond_waiters EXCEPT ![c] = Tail(@)]
                  /\ stack' = [stack EXCEPT ![t] =
                       <<<<"sema_up", WaiterSema(cond_signal_front(c))>>>> \o rest]
             ELSE /\ stack' = [stack EXCEPT ![t] = rest]
                  /\ UNCHANGED cond_waiters
  /\ UNCHANGED <<semaVars, holder, eff_priority, status, cur, retval,
                 timerVars, constVars, sema_priority, intr_calls, woke,
                 histVars>>

\* The loop test of cond_broadcast by thread t: true when the loop ends.
cond_broadcast_done(t, c) == cond_waiters[c] = <<>>

\* cond_broadcast: one turn of while (!list_empty (&cond->waiters))
\* cond_signal (cond, lock).
CondBroadcast(t, c, l, rest) ==
  IF cond_broadcast_done(t, c)
  THEN /\ stack' = [stack EXCEPT ![t] = rest]
       /\ UNCHANGED <<semaVars, holder, eff_priority, status, cur, retval,
                      timerVars, panic, constVars, condVars, intr_calls, woke,
                      histVars>>
  ELSE CondSignal(t, c, l, <<<<"cond_broadcast", c, l>>>> \o rest)

CallCondWait(t, c, l) ==
  /\ AtTop(t)
  /\ CondWait(t, c, l, <<>>)
  /\ Called(t, "cond_wait", l)

CallCondSignal(t, c, l) ==
  /\ AtTop(t)
  /\ CondSignal(t, c, l, <<>>)
  /\ Called(t, "cond_signal", l)

CallCondBroadcast(t, c, l) ==
  /\ AtTop(t)
  /\ CondBroadcast(t, c, l, <<>>)
  /\ Called(t, "cond_broadcast", l)

\* The loop of cond_broadcast after a cond_signal has returned.
cond_broadcast(t) ==
  /\ At(t, "cond_broadcast")
  /\ CondBroadcast(t, Arg(t), CondLock(t), Rest(t))
  /\ Resumed

\* The function of thread t returns: thread_exit ().  The thread never runs
\* again.  A thread that follows the monitor discipline holds no lock then.
thread_exit(t) ==
  /\ Running(t)
  /\ stack[t] = <<>>
  /\ \A l \in Locks : holder[l] # t
  /\ schedule([status EXCEPT ![t] = "dying"])
  /\ UNCHANGED <<semaVars, holder, eff_priority, stack, op, retval, timerVars,
                 panic, budget, constVars, condVars, intr_calls, woke,
                 histVars>>

\* ---- calls from interrupt handlers ---------------------------------------
\* An external interrupt handler runs with interrupts off, to its end,
\* between two steps of the interrupted thread cur, where cur has interrupts
\* enabled.  intr_calls counts the calls handlers have made.
InHandler ==
  /\ panic = "none"
  /\ intr_enabled
  /\ intr_calls < IntrCalls
  /\ intr_calls' = intr_calls + 1

\* thread_yield () reached in interrupt context with statuses st: the kernel
\* stops at its assertion, or the interrupted thread is switched out.
intr_thread_yield(st) ==
  \/ /\ panic' = "thread_yield"
     /\ status' = st
     /\ cur' = cur
  \/ /\ panic' = panic
     /\ schedule(IF cur = Idle THEN st ELSE [st EXCEPT ![cur] = "ready"])

\* sema_up (s) called by an interrupt handler, whole.
IntrSemaUp(s) ==
  /\ InHandler
  /\ IF sema_up_unwait(s) # NULL /\ status[sema_up_unwait(s)] # "blocked"
     THEN /\ waiters' = [waiters EXCEPT ![s] = Tail(@)]
          /\ wakes' = Append(wakes, WakeEvent(sema_up_unwait(s), s,
                                IsBest(sema_up_unwait(s), waiters[s], s)))
          /\ panic' = "thread_unblock"
          /\ UNCHANGED <<value, extra, status, cur>>
     ELSE /\ value' = [value EXCEPT ![s] = @ + 1]
          /\ extra' = [extra EXCEPT ![s] = @ + 1]
          /\ IF sema_up_unwait(s) # NULL
             THEN /\ waiters' = [waiters EXCEPT ![s] = Tail(@)]
                  /\ wakes' = Append(wakes, WakeEvent(sema_up_unwait(s), s,
                                        IsBest(sema_up_unwait(s), waiters[s], s)))
                  /\ IF sema_up_yields(sema_up_unwait(s))
                     THEN intr_thread_yield([status EXCEPT ![sema_up_unwait(s)] = "ready"])
                     ELSE /\ status' = [status EXCEPT ![sema_up_unwait(s)] = "ready"]
                          /\ UNCHANGED <<panic, cur>>
             ELSE UNCHANGED <<waiters, wakes, status, cur, panic>>
  /\ UNCHANGED <<holder, eff_priority, stack, op, retval, timerVars, budget,
                 constVars, condVars, woke, permit, owns, donated, used,
                 tried, arrivals, late>>

\* sema_try_down (s) called by an interrupt handler, whole.
IntrSemaTryDown(s) ==
  /\ InHandler
  /\ value' = [value EXCEPT ![s] = IF sema_try_down_ok(s) THEN @ - 1 ELSE @]
  /\ UNCHANGED <<waiters, holder, eff_priority, status, cur, stack, op,
                 retval, timerVars, panic, budget, constVars, condVars,
                 woke, histVars>>

\* lock_try_acquire (l) called by an interrupt handler, whole:
\* thread_current () is the interrupted thread, the idle thread when the
\* CPU was idle.
IntrLockTryAcquire(l) ==
  /\ InHandler
  /\ IF lock_held_by_current_thread(cur, l)
     THEN /\ panic' = "lock_try_acquire"
          /\ UNCHANGED <<value, holder, owns>>
     ELSE /\ panic' = panic
          /\ IF sema_try_down_ok(LockSema(l))
             THEN /\ value' = [value EXCEPT ![LockSema(l)] = @ - 1]
                  /\ holder' = [holder EXCEPT ![l] = cur]
                  /\ owns' = IF cur \in Threads
                             THEN [owns EXCEPT ![cur] = @ \cup {l}]
                             ELSE owns
             ELSE UNCHANGED <<value, holder, owns>>
  /\ used' = [used EXCEPT ![l] = @ \cup {"lock_try_acquire"}]
  /\ UNCHANGED <<waiters, eff_priority, status, cur, stack, op, retval,
                 timerVars, budget, constVars, condVars, woke, permit,
                 extra, donated, tried, arrivals, late, wakes>>

\* ---- timer --------------------------------------------------------------
\* ticks >= wakey->wakeup_time, the test of the wake loop for the thread t
\* at the head of the queue, with the tick count at now.
timer_due(t, now) == now >= wakeup_time[t]

\* ---- the sleep queue ----------------------------------------------------
\* sleeping_threads is a struct list of lib/kernel/list.c: a head and a tail
\* sentinel and, per element (the sleepelem of a thread), the pointers next
\* and prev.  An element that was never inserted has both pointers NULL; an
\* element that was removed keeps the pointers it had.
list_remove(list, e) ==
  [next |-> [list.next EXCEPT ![list.prev[e]] = list.next[e]],
   prev |-> [list.prev EXCEPT ![list.next[e]] = list.prev[e]]]

list_begin(list) == list.next[list_head]

list_empty(list) == list_begin(list) = list_tail

\* The elements met from list_begin on by following next, up to list_end,
\* at most n of them.
RECURSIVE ListFrom(_, _, _)
ListFrom(list, e, n) ==
  IF n = 0 \/ e \notin Threads THEN <<>>
  ELSE <<e>> \o ListFrom(list, list.next[e], n - 1)

\* The sleep queue as a sequence of threads, front first.
ListSeq(list) == ListFrom(list, list_begin(list), NumThreads + 1)

SleepingThreads == ListSeq(sleeping_threads)

\* The wake loop of timer_interrupt with the tick count at now, from the
\* queue list, the statuses st and the wake events wk: while the queue is
\* not empty and the wakeup_time of its front is reached, list_pop_front and
\* thread_unblock, which stops the kernel when the thread is not blocked.
RECURSIVE WakeLoop(_, _, _, _)
WakeLoop(list, st, wk, now) ==
  IF list_empty(list) \/ ~timer_due(list_begin(list), now)
  THEN [list |-> list, status |-> st, wakes |-> wk, panic |-> "none"]
  ELSE LET wakey == list_begin(list)
           ev == [t |-> wakey, q |-> SleepQ, at |-> now,
                  due |-> wakeup_time[wakey],
                  pri |-> EffectivePriority(wakey),
                  blocked |-> st[wakey] = "blocked", best |-> TRUE]
       IN IF st[wakey] # "blocked"
          THEN [list |-> list_remove(list, wakey), status |-> st,
                wakes |-> Append(wk, ev), panic |-> "thread_unblock"]
          ELSE WakeLoop(list_remove(list, wakey),
                        [st EXCEPT ![wakey] = "ready"], Append(wk, ev), now)

TimerWakes(now) == WakeLoop(sleeping_threads, status, wakes, now)

\* timer_interrupt: ticks++, thread_tick (), then the wake loop.  It runs
\* whenever interrupts are enabled, that is between any two actions but in
\* front of the loop test of a thread switched in inside sema_down.  On
\* return the interrupted thread may have to yield (thread_tick decides);
\* the idle thread gives way as soon as a thread is ready.
timer_interrupt ==
  /\ panic = "none"
  /\ intr_enabled
  /\ ticks < tick_limit
  /\ ticks' = ticks + 1
  /\ sleeping_threads' = TimerWakes(ticks + 1).list
  /\ wakes' = TimerWakes(ticks + 1).wakes
  /\ panic' = TimerWakes(ticks + 1).panic
  /\ IF TimerWakes(ticks + 1).panic # "none"
     THEN /\ status' = TimerWakes(ticks + 1).status
          /\ cur' = cur
     ELSE IF cur = Idle
          THEN schedule(TimerWakes(ticks + 1).status)
          ELSE \/ status' = TimerWakes(ticks + 1).status /\ cur' = cur
               \/ schedule([TimerWakes(ticks + 1).status EXCEPT ![cur] = "ready"])
  /\ UNCHANGED <<semaVars, holder, eff_priority, stack, op, retval,
                 wakeup_time, budget, constVars, condVars, intr_calls, woke, permit, extra, owns, donated,
                 used, tried, arrivals, late>>

\* A faulty variant of the test: a sleep of 0 ticks goes on.
timer_sleep_returns_lt(d) == d < 0

\* if (ticks <= 0) return;
timer_sleep_returns(d) == d <= 0

\* A step of timer_sleep that changes only the position of thread t, to the
\* frame next.
TimerSleepReads(t, next) ==
  /\ stack' = [stack EXCEPT ![t] = <<next>> \o Rest(t)]
  /\ Resumed
  /\ UNCHANGED <<semaVars, holder, eff_priority, status, cur, retval,
                 timerVars, panic, constVars, condVars, intr_calls, woke,
                 histVars>>

\* A step of timer_sleep that writes pointers of the sleep queue, which
\* becomes list, and goes to the frame next.
TimerSleepWrites(t, list, next) ==
  /\ sleeping_threads' = list
  /\ stack' = [stack EXCEPT ![t] = <<next>> \o Rest(t)]
  /\ Resumed
  /\ UNCHANGED <<semaVars, holder, eff_priority, status, cur, retval, ticks,
                 wakeup_time, panic, constVars, condVars, intr_calls, woke,
                 permit, extra, owns, donated, used, tried, late, wakes>>

\* timer_sleep up to int64_t start = timer_ticks (): returns at once for
\* ticks <= 0.  Interrupts are enabled from here to intr_disable: each
\* statement below is a step of its own, and so are the read and the write
\* of a statement that goes through a pointer it reads.
TimerSleep(t, d, rest) ==
  /\ IF timer_sleep_returns(d)
     THEN /\ stack' = [stack EXCEPT ![t] = rest]
          /\ UNCHANGED arrivals
     ELSE /\ arrivals' = [arrivals EXCEPT ![SleepCalls] = Append(@, t)]
          /\ stack' = [stack EXCEPT ![t] = <<<<"timer_sleep_wakeup", d, ticks>>>> \o rest]
  /\ UNCHANGED <<semaVars, holder, eff_priority, status, cur, retval,
                 timerVars, panic, constVars, condVars, intr_calls, woke,
                 permit, extra, owns, donated, used, tried, late, wakes>>

CallTimerSleep(t, d) ==
  /\ AtTop(t)
  /\ TimerSleep(t, d, <<>>)
  /\ Called(t, "timer_sleep", d)

\* sleepy->wakeup_time = start + ticks;
timer_sleep_wakeup(t) ==
  /\ At(t, "timer_sleep_wakeup")
  /\ wakeup_time' = [wakeup_time EXCEPT ![t] = stack[t][1][3] + Arg(t)]
  /\ stack' = [stack EXCEPT ![t] = <<<<"timer_sleep_insert", Arg(t)>>>> \o Rest(t)]
  /\ Resumed
  /\ UNCHANGED <<semaVars, holder, eff_priority, status, cur, retval, ticks,
                 sleeping_threads, panic, constVars, condVars, intr_calls,
                 woke, histVars>>

\* list_insert_ordered (&sleeping_threads, &sleepy->sleepelem, compare,
\* NULL), called with interrupts enabled: e = list_begin (list).
timer_sleep_insert(t) ==
  /\ At(t, "timer_sleep_insert")
  /\ TimerSleepReads(t, <<"list_insert_ordered", Arg(t), list_begin(sleeping_threads)>>)

\* The loop of list_insert_ordered at the element e: it ends at list_end
\* and at the first e with less (elem, e), and list_insert (e, elem)
\* follows.
list_insert_ordered_less(t) ==
  /\ At(t, "list_insert_ordered")
  /\ TimerSleepReads(t,
       IF stack[t][1][3] = list_tail \/ compare(t, stack[t][1][3])
       THEN <<"list_insert", Arg(t), stack[t][1][3]>>
       ELSE <<"list_next", Arg(t), stack[t][1][3]>>)

\* e = list_next (e)
list_insert_ordered_next(t) ==
  /\ At(t, "list_next")
  /\ TimerSleepReads(t,
       <<"list_insert_ordered", Arg(t), sleeping_threads.next[stack[t][1][3]]>>)

\* list_insert (before, elem): elem->prev = before->prev;
list_insert_prev(t) ==
  /\ At(t, "list_insert")
  /\ TimerSleepWrites(t,
       [sleeping_threads EXCEPT !.prev[t] = sleeping_threads.prev[stack[t][1][3]]],
       <<"list_insert_next", Arg(t), stack[t][1][3],
         sleeping_threads.prev[stack[t][1][3]]>>)
  /\ UNCHANGED arrivals

\* elem->next = before;
list_insert_next(t) ==
  /\ At(t, "list_insert_next")
  /\ TimerSleepWrites(t,
       [sleeping_threads EXCEPT !.next[t] = stack[t][1][3]],
       <<"list_insert_load", Arg(t), stack[t][1][3], stack[t][1][4]>>)
  /\ UNCHANGED arrivals

\* before->prev of before->prev->next = elem: the pointer read for
\* elem->prev, or the field read again.
list_insert_load(t) ==
  /\ At(t, "list_insert_load")
  /\ \E p \in {stack[t][1][4], sleeping_threads.prev[stack[t][1][3]]} :
       TimerSleepReads(t, <<"list_insert_link", Arg(t), stack[t][1][3], p>>)

\* The write of before->prev->next = elem.
list_insert_link(t) ==
  /\ At(t, "list_insert_link")
  /\ TimerSleepWrites(t,
       [sleeping_threads EXCEPT !.next[stack[t][1][4]] = t],
       <<"list_insert_back", Arg(t), stack[t][1][3]>>)
  /\ arrivals' = [arrivals EXCEPT ![SleepQ] = Append(@, t)]

\* before->prev = elem;
list_insert_back(t) ==
  /\ At(t, "list_insert_back")
  /\ TimerSleepWrites(t,
       [sleeping_threads EXCEPT !.prev[stack[t][1][3]] = t],
       <<"timer_sleep_block", Arg(t)>>)
  /\ UNCHANGED arrivals

\* intr_disable (); thread_block (); and, once resumed, intr_set_level and
\* the return.
timer_sleep_block(t) ==
  /\ At(t, "timer_sleep_block")
  /\ thread_block(t)
  /\ stack' = [stack EXCEPT ![t] = Rest(t)]
  /\ Resumed
  /\ UNCHANGED <<semaVars, holder, eff_priority, retval, timerVars, panic,
                 constVars, condVars, intr_calls, woke, histVars>>

\* The steps of timer_sleep after the call.
TimerSleepStep(t) ==
  \/ timer_sleep_wakeup(t) \/ timer_sleep_insert(t)
  \/ list_insert_ordered_less(t) \/ list_insert_ordered_next(t)
  \/ list_insert_prev(t) \/ list_insert_next(t) \/ list_insert_load(t)
  \/ list_insert_link(t) \/ list_insert_back(t)
  \/ timer_sleep_block(t)

\* ---- specifications -----------------------------------------------------
\* Threads using the plain semaphores.
InitSema == InitFor(SemaThreads, SemaCalls, SemaTicks, 0..MaxValue)

NextSema ==
  \/ \E t \in Threads, s \in Semas :
       CallSemaDown(t, s) \/ CallSemaTryDown(t, s) \/ CallSemaUp(t, s)
  \/ \E t \in Threads : sema_down(t) \/ sema_up_yield(t)
  \/ timer_interrupt

SpecSema == InitSema /\ [][NextSema]_vars

\* Threads contending for a lock.
InitMutex == InitFor(MutexThreads, MutexCalls, MutexTicks, {0})

NextMutex ==
  \/ \E t \in Threads, l \in 1..MutexLocks :
       CallLockAcquire(t, l) \/ CallLockTryAcquire(t, l) \/ CallLockRelease(t, l)
  \/ \E t \in Threads :
       \/ lock_acquire_test(t) \/ lock_acquire_compare(t)
       \/ lock_acquire_donation(t) \/ lock_acquire_load(t)
       \/ lock_acquire_donate(t) \/ lock_acquire_holder(t)
       \/ lock_try_acquire_down(t) \/ lock_try_acquire_holder(t)
       \/ lock_release_clear(t)
       \/ sema_down(t) \/ sema_up(t) \/ sema_up_yield(t)
  \/ timer_interrupt

SpecMutex == InitMutex /\ [][NextMutex]_vars

\* Threads acquiring and releasing the locks, with donation.
InitLock == InitFor(LockThreads, LockCalls, LockTicks, {0})

NextLock ==
  \/ \E t \in Threads, l \in Locks : CallLockAcquire(t, l) \/ CallLockRelease(t, l)
  \/ \E t \in Threads :
       \/ lock_acquire_test(t) \/ lock_acquire_compare(t)
       \/ lock_acquire_donation(t) \/ lock_acquire_load(t)
       \/ lock_acquire_donate(t) \/ lock_acquire_holder(t)
       \/ lock_release_clear(t)
       \/ sema_down(t) \/ sema_up(t) \/ sema_up_yield(t)
  \/ timer_interrupt

SpecLock == InitLock /\ [][NextLock]_vars

\* Threads that wait on a semaphore while taking part in donations.
InitWake == InitFor(NumThreads, WakeCalls, WakeTicks, {0})

NextWake ==
  \/ \E t \in Threads, l \in Locks : CallLockAcquire(t, l)
  \/ \E t \in Threads, s \in Semas : CallSemaDown(t, s) \/ CallSemaUp(t, s)
  \/ \E t \in Threads :
       \/ lock_acquire_test(t) \/ lock_acquire_compare(t)
       \/ lock_acquire_donation(t) \/ lock_acquire_load(t)
       \/ lock_acquire_donate(t) \/ lock_acquire_holder(t)
       \/ sema_down(t) \/ sema_up_yield(t)
  \/ timer_interrupt

SpecWake == InitWake /\ [][NextWake]_vars

\* Threads using a condition variable under its lock.
InitCond == InitFor(CondThreads, CondCalls, CondTicks, {0})

NextCond ==
  \/ \E t \in Threads, l \in 1..CondLocks :
       CallLockAcquire(t, l) \/ CallLockRelease(t, l)
  \/ \E t \in Threads, c \in Conds, l \in 1..CondLocks :
       CallCondWait(t, c, l) \/ CallCondSignal(t, c, l) \/ CallCondBroadcast(t, c, l)
  \/ \E t \in Threads :
       \/ lock_acquire_test(t) \/ lock_acquire_compare(t)
       \/ lock_acquire_donation(t) \/ lock_acquire_load(t)
       \/ lock_acquire_donate(t) \/ lock_acquire_holder(t)
       \/ lock_release_clear(t) \/ lock_release(t) \/ lock_acquire(t)
       \/ cond_wait_compare(t) \/ cond_wait_priority(t)
       \/ cond_wait_insert(t)
       \/ cond_broadcast(t)
       \/ sema_down(t) \/ sema_up(t) \/ sema_up_yield(t)
  \/ timer_interrupt

SpecCond == InitCond /\ [][NextCond]_vars

\* The scheduler as the specification has it: at a scheduling point (the
\* running thread blocks, yields or is preempted) the thread then running is
\* a runnable thread of highest effective priority.
highest_priority_runs ==
  (\/ cur' # cur
   \/ /\ cur \in Threads
      /\ stack[cur] # <<>>
      /\ stack[cur][1][1] = "sema_up_yield"
      /\ stack'[cur] # stack[cur])
  => (cur' \in Threads =>
        \A r \in ReadyThreads(status') :
          EffectivePriority(cur)' >= EffectivePriority(r)')

\* The threads of SpecCond under that scheduler.
NextYield ==
  \/ \E t \in Threads, l \in 1..CondLocks :
       \/ CallLockAcquire(t, l) /\ highest_priority_runs
       \/ CallLockRelease(t, l) /\ highest_priority_runs
  \/ \E t \in Threads, c \in Conds, l \in 1..CondLocks :
       \/ CallCondWait(t, c, l) /\ highest_priority_runs
       \/ CallCondSignal(t, c, l) /\ highest_priority_runs
       \/ CallCondBroadcast(t, c, l) /\ highest_priority_runs
  \/ \E t \in Threads :
       \/ lock_acquire_test(t) /\ highest_priority_runs
       \/ lock_acquire_compare(t) /\ highest_priority_runs
       \/ lock_acquire_donation(t) /\ highest_priority_runs
       \/ lock_acquire_load(t) /\ highest_priority_runs
       \/ lock_acquire_donate(t) /\ highest_priority_runs
       \/ lock_acquire_holder(t) /\ highest_priority_runs
       \/ lock_release_clear(t) /\ highest_priority_runs
       \/ lock_release(t) /\ highest_priority_runs
       \/ lock_acquire(t) /\ highest_priority_runs
       \/ cond_wait_compare(t) /\ highest_priority_runs
       \/ cond_wait_priority(t) /\ highest_priority_runs
       \/ cond_wait_insert(t) /\ highest_priority_runs
       \/ cond_broadcast(t) /\ highest_priority_runs
       \/ sema_down(t) /\ highest_priority_runs
       \/ sema_up(t) /\ highest_priority_runs
       \/ sema_up_yield(t) /\ highest_priority_runs
  \/ timer_interrupt /\ highest_priority_runs

SpecYield == InitCond /\ [][NextYield]_vars

\* The same scenario with threads that follow the monitor discipline and
\* then end: a thread acquires the lock it does not hold, calls cond_wait,
\* cond_signal and cond_broadcast only while it holds the lock, and
\* releases the lock it holds.  The release that the discipline owes is not
\* counted in the budget of calls.
MonitorAcquire(t, l) == holder[l] # t /\ CallLockAcquire(t, l)

MonitorWait(t, c, l) == holder[l] = t /\ CallCondWait(t, c, l)

MonitorSignal(t, c, l) == holder[l] = t /\ CallCondSignal(t, c, l)

MonitorBroadcast(t, c, l) == holder[l] = t /\ CallCondBroadcast(t, c, l)

MonitorRelease(t, l) ==
  /\ Running(t)
  /\ stack[t] = <<>>
  /\ holder[l] = t
  /\ LockRelease(t, l, <<>>)
  /\ op' = [op EXCEPT ![t] = <<"lock_release", l>>]
  /\ UNCHANGED budget

\* The running thread takes the next step of the call it is in.
ThreadStep ==
  \E t \in Threads :
    \/ lock_acquire_test(t) \/ lock_acquire_compare(t)
    \/ lock_acquire_donation(t) \/ lock_acquire_load(t)
    \/ lock_acquire_donate(t) \/ lock_acquire_holder(t)
    \/ lock_release_clear(t) \/ lock_release(t) \/ lock_acquire(t)
    \/ cond_wait_compare(t) \/ cond_wait_priority(t)
    \/ cond_wait_insert(t)
    \/ cond_broadcast(t)
    \/ sema_down(t) \/ sema_up(t) \/ sema_up_yield(t)

HolderReleases == \E t \in Threads : \E l \in 1..CondLocks : MonitorRelease(t, l)

ThreadExit == \E t \in Threads : thread_exit(t)

NextCondFair ==
  \/ \E t \in Threads : \E l \in 1..CondLocks :
       \/ MonitorAcquire(t, l)
       \/ \E c \in Conds :
            \/ MonitorWait(t, c, l)
            \/ MonitorSignal(t, c, l)
            \/ MonitorBroadcast(t, c, l)
  \/ HolderReleases
  \/ ThreadStep
  \/ ThreadExit
  \/ timer_interrupt

InitCondFair == InitFor(FairThreads, FairCalls, FairTicks, {0})

\* Every runnable thread is eventually scheduled and goes on: the running
\* thread takes its next step, a thread that holds the lock outside any call
\* releases it, and a thread that makes no further call ends.
SpecCondFair ==
  /\ InitCondFair
  /\ [][NextCondFair]_vars
  /\ WF_vars(ThreadStep)
  /\ WF_vars(HolderReleases)
  /\ WF_vars(ThreadExit)

\* The monitor discipline without timer interrupts: the threads are
\* switched where they block, yield or end.  Waiters that wait again need
\* more calls.
NextMesa ==
  \/ \E t \in Threads : \E l \in 1..CondLocks :
       \/ MonitorAcquire(t, l)
       \/ \E c \in Conds :
            \/ MonitorWait(t, c, l)
            \/ MonitorSignal(t, c, l)
            \/ MonitorBroadcast(t, c, l)
  \/ HolderReleases
  \/ ThreadStep
  \/ ThreadExit

InitMesa == InitFor(MesaThreads, MesaCalls, 0, {0})

SpecMesa ==
  /\ InitMesa
  /\ [][NextMesa]_vars
  /\ WF_vars(ThreadStep)
  /\ WF_vars(HolderReleases)
  /\ WF_vars(ThreadExit)

\* Threads on a semaphore and on the locks, and interrupt handlers that
\* call the operations allowed in interrupt context.
InitIntr == InitFor(IntrThreads, IntrThreadCalls, IntrTicks, {0, 1})

NextIntr ==
  \/ \E t \in Threads, s \in Semas : CallSemaDown(t, s) \/ CallSemaUp(t, s)
  \/ \E t \in Threads, l \in Locks :
       CallLockAcquire(t, l) \/ CallLockTryAcquire(t, l)
  \/ \E t \in Threads :
       \/ lock_acquire_test(t) \/ lock_acquire_compare(t)
       \/ lock_acquire_donation(t) \/ lock_acquire_load(t)
       \/ lock_acquire_donate(t) \/ lock_acquire_holder(t)
       \/ lock_try_acquire_down(t) \/ lock_try_acquire_holder(t)
  \/ \E t \in Threads : sema_down(t) \/ sema_up_yield(t)
  \/ \E s \in Semas : IntrSemaUp(s) \/ IntrSemaTryDown(s)
  \/ \E l \in Locks : IntrLockTryAcquire(l)
  \/ timer_interrupt

SpecIntr == InitIntr /\ [][NextIntr]_vars

\* sema_self_test: the thread SelfTest runs the loop of sema_self_test, the
\* thread TestHelper the loop of sema_test_helper, PingRounds times each.
\* The history counts the turns: extra[s] the ups of s, permit[t][s] the
\* downs of s that t has completed.
SelfTest == 1
TestHelper == 2

\* for (i = 0; i < 10; i++) { sema_up (&sema[0]); sema_down (&sema[1]); }
sema_self_test ==
  \/ /\ extra[TestSema(0)] = permit[SelfTest][TestSema(1)]
     /\ extra[TestSema(0)] < PingRounds
     /\ CallSemaUp(SelfTest, TestSema(0))
  \/ /\ extra[TestSema(0)] = permit[SelfTest][TestSema(1)] + 1
     /\ CallSemaDown(SelfTest, TestSema(1))

\* for (i = 0; i < 10; i++) { sema_down (&sema[0]); sema_up (&sema[1]); }
sema_test_helper ==
  \/ /\ permit[TestHelper][TestSema(0)] = extra[TestSema(1)]
     /\ permit[TestHelper][TestSema(0)] < PingRounds
     /\ CallSemaDown(TestHelper, TestSema(0))
  \/ /\ permit[TestHelper][TestSema(0)] = extra[TestSema(1)] + 1
     /\ CallSemaUp(TestHelper, TestSema(1))

\* Thread t has completed all its turns.
Finished(t) ==
  /\ stack[t] = <<>>
  /\ IF t = SelfTest
     THEN /\ extra[TestSema(0)] = PingRounds
          /\ permit[SelfTest][TestSema(1)] = PingRounds
     ELSE /\ permit[TestHelper][TestSema(0)] = PingRounds
          /\ extra[TestSema(1)] = PingRounds

\* The steps of the two threads: the loops, the rest of a call, and the end
\* of a thread that has completed its loop.
PingStep ==
  \/ sema_self_test
  \/ sema_test_helper
  \/ \E t \in {SelfTest, TestHelper} :
       \/ sema_down(t)
       \/ sema_up_yield(t)
       \/ Finished(t) /\ thread_exit(t)

NextPing == PingStep \/ timer_interrupt

\* The two threads with any base priorities.
InitPing ==
  InitWith(Cardinality({SelfTest, TestHelper}), 4 * PingRounds, PingTicks, {0},
           {p \in [Threads -> Priorities] :
              \A t \in Threads \ {SelfTest, TestHelper} : p[t] = MaxPriority})

\* Every runnable thread is eventually scheduled and goes on.
SpecPing == InitPing /\ [][NextPing]_vars /\ WF_vars(PingStep)

\* Threads sleeping on the timer.
InitTimer == InitFor(TimerThreads, TimerCalls, TimerTicks, {0})

NextTimer ==
  \/ \E t \in Threads, d \in Durations : CallTimerSleep(t, d)
  \/ \E t \in Threads : TimerSleepStep(t)
  \/ timer_interrupt

SpecTimer == InitTimer /\ [][NextTimer]_vars

\* ---- claims -------------------------------------------------------------
Max(S) == CHOOSE x \in S : \A y \in S : y <= x

\* Downs on s (sema_down, successful sema_try_down) not yet matched by an up
\* of the same thread.
RECURSIVE SumPermits(_, _)
SumPermits(s, n) == IF n = 0 THEN 0 ELSE permit[n][s] + SumPermits(s, n - 1)

Outstanding(s) == SumPermits(s, NumThreads)

\* C1: for a semaphore initialized to N whose ups are all matching ups, the
\* number of downs completed without a matching up never exceeds N, and the
\* value never goes below 0.
C1_SemaphoreBound ==
  \A s \in SemaIds :
    /\ value[s] >= 0
    /\ extra[s] = 0 => Outstanding(s) <= init_value[s]

\* A semaphore with N = MaxValue has all N permits out and a thread waiting.
C1_Witness ==
  \E s \in Semas :
    /\ init_value[s] = MaxValue
    /\ extra[s] = 0
    /\ Outstanding(s) = init_value[s]
    /\ waiters[s] # <<>>

\* Returned(t, name, arg): the last call of t was name (arg) and has returned.
Returned(t, name, arg) == stack[t] = <<>> /\ op[t] = <<name, arg>>

Owners(l) == {t \in Threads : l \in owns[t]}

\* The threads whose lock_try_acquire on l has returned, and those among
\* them that got true.
Tried(l) == {t \in Threads : tried[l][t] # "none"}
TriedTrue(l) == {t \in Threads : tried[l][t] = "true"}

\* The threads between sema_try_down and the return of lock_try_acquire.
Trying(l) ==
  {t \in Threads : stack[t] # <<>> /\ stack[t][1] = <<"lock_try_acquire_holder", l>>}

\* C2: at most one thread has returned from lock_acquire or a successful
\* lock_try_acquire without its release having taken effect; and when the
\* only calls on a lock were lock_try_acquire, at most one of them returns
\* true, and exactly one once two or more threads have returned and no call
\* is still in progress.
C2_MutualExclusion ==
  \A l \in Locks :
    /\ Cardinality(Owners(l)) <= 1
    /\ used[l] = {"lock_try_acquire"} =>
         /\ Cardinality(TriedTrue(l)) <= 1
         /\ (Cardinality(Tried(l)) >= 2 /\ Trying(l) = {})
              => Cardinality(TriedTrue(l)) = 1

\* Two threads tried an unlocked lock: one got true, the other false.
C2_Witness ==
  \E l \in Locks, t, u \in Threads :
    /\ used[l] = {"lock_try_acquire"}
    /\ tried[l][t] = "true"
    /\ tried[l][u] = "false"
    /\ holder[l] = t

\* h has taken l's semaphore and has not started to give the lock back.
HoldsLock(h, l) ==
  /\ permit[h][LockSema(l)] > 0
  /\ ~Releasing(h, l)
  /\ ~(stack[h] # <<>> /\ stack[h][1] = <<"sema_up", LockSema(l)>>)

\* w is blocked in lock_acquire (l).
BlockedOn(w, l) == status[w] = "blocked" /\ w \in Range(waiters[LockSema(l)])

\* C3: whenever a thread w is blocked in lock_acquire on a lock held by h,
\* the effective priority of h is at least the effective priority of w.
C3_DonationInvariant ==
  \A l \in Locks, h, w \in Threads :
    HoldsLock(h, l) /\ BlockedOn(w, l)
      => EffectivePriority(h) >= EffectivePriority(w)

\* C4: nested donation: when low holds l1, mid holds l2 and is blocked on
\* l1, and high is blocked on l2, the effective priority of low is at least
\* that of high.
C4_NestedDonation ==
  \A l1, l2 \in Locks, low, mid, high \in Threads :
    /\ l1 # l2
    /\ holder[l1] = low /\ HoldsLock(low, l1)
    /\ holder[l2] = mid /\ HoldsLock(mid, l2)
    /\ BlockedOn(mid, l1)
    /\ BlockedOn(high, l2)
    => EffectivePriority(low) >= EffectivePriority(high)

\* The step in which lock_release (l) of thread t returns.
ReleaseReturns(t, l) ==
  /\ op[t] = <<"lock_release", l>>
  /\ stack[t] # <<>>
  /\ stack'[t] = <<>>
  /\ panic' = "none"

\* The threads blocked on a lock that t holds.
Donors(t) == {w \in Threads : \E m \in owns[t] : BlockedOn(w, m)}

\* max (base priority, effective priorities of the threads blocked on the
\* locks t holds).
KeptPriority(t) == Max({priority[t]} \cup {EffectivePriority(w) : w \in Donors(t)})

\* C5: when lock_release returns to a thread that still holds other locks,
\* its effective priority is the maximum of its base priority and the
\* effective priorities of the threads blocked on those other locks.
C5_ReleaseKeepsOtherDonations ==
  [][\A t \in Threads, l \in Locks :
       ReleaseReturns(t, l) /\ owns'[t] # {}
         => EffectivePriority(t)' = KeptPriority(t)']_vars

\* C6: a thread that held one lock only, received a donation through it
\* while holding it, and has returned from releasing it, has its base
\* priority as effective priority.
C6_ReleaseRestoresBase ==
  \A t \in Threads, l \in Locks :
    /\ panic = "none"
    /\ Returned(t, "lock_release", l)
    /\ owns[t] = {}
    /\ <<l, "held">> \in donated[t]
    => EffectivePriority(t) = priority[t]

\* The wake events of queue q, in order.
RECURSIVE WakesOf(_, _)
WakesOf(q, w) ==
  IF w = <<>> THEN <<>>
  ELSE (IF Head(w).q = q THEN <<Head(w)>> ELSE <<>>) \o WakesOf(q, Tail(w))

\* Wake event e comes before f in priority order, FIFO among equals.
Before(q, e, f) ==
  \/ e.pri > f.pri
  \/ e.pri = f.pri /\ LastPos(arrivals[q], e.t) < LastPos(arrivals[q], f.t)

\* C7: when the threads waiting on a semaphore all blocked before its first
\* wake, successive sema_up calls wake them in descending priority order,
\* equals in the order in which they blocked.
C7_PriorityOrder ==
  \A s \in Semas :
    ~late[s] =>
      \A i, j \in 1..Len(WakesOf(s, wakes)) :
        i < j => Before(s, WakesOf(s, wakes)[i], WakesOf(s, wakes)[j])

\* Two waiters were woken, the one that blocked later first.
C7_Witness ==
  \E s \in Semas :
    /\ ~late[s]
    /\ Len(WakesOf(s, wakes)) >= 2
    /\ WakesOf(s, wakes)[1].pri > WakesOf(s, wakes)[2].pri
    /\ LastPos(arrivals[s], WakesOf(s, wakes)[1].t)
         > LastPos(arrivals[s], WakesOf(s, wakes)[2].t)

\* C8: at every wake event of a semaphore (plain or a lock's), the thread
\* taken from the waiter queue is the one of highest effective priority
\* among the threads then in that queue, the earliest-arrived among equals.
C8_WakeHighestAtWake ==
  \A i \in 1..Len(wakes) : wakes[i].q # SleepQ => wakes[i].best

\* The wake events in which the tick handler made a sleeper runnable.
TimerWakeups == SelectSeq(WakesOf(SleepQ, wakes), LAMBDA e : e.blocked)

\* C9: sleepers are made runnable in ascending order of deadline, each at a
\* tick t with deadline <= t <= deadline + 1.
C9_SleepOrderAndBounds ==
  /\ \A i \in 1..Len(TimerWakeups) :
       /\ TimerWakeups[i].due <= TimerWakeups[i].at
       /\ TimerWakeups[i].at <= TimerWakeups[i].due + 1
  /\ \A i, j \in 1..Len(TimerWakeups) :
       i < j => TimerWakeups[i].due <= TimerWakeups[j].due

\* The wake events the step adds.
NewWakes == {wakes'[i] : i \in (Len(wakes) + 1)..Len(wakes')}

\* C10: a blocked thread becomes runnable only in a step that pops it from
\* the front of the waiter queue it is in, or from the sleep queue with its
\* deadline reached; and every thread such a step unblocks is blocked at
\* that moment.
C10_OnlyExplicitWakes ==
  [][/\ \A t \in Threads :
          status[t] = "blocked" /\ status'[t] # "blocked"
            => \E e \in NewWakes :
                 /\ e.t = t
                 /\ IF e.q = SleepQ
                    THEN t \in Range(SleepingThreads) /\ e.due <= e.at
                    ELSE waiters[e.q] # <<>> /\ t = Head(waiters[e.q])
     /\ \A e \in NewWakes : e.blocked]_vars

\* t is blocked in the sema_down of cond_wait.
WaitingOnCond(t) ==
  status[t] = "blocked" /\ t \in Range(waiters[WaiterSema(t)])

\* C11: a thread blocked in cond_wait (c, l) is not the holder of l, and a
\* thread that has returned from cond_wait (c, l) is the holder of l and
\* has taken a signal: its waits completed are covered by the sema_up calls
\* on its semaphore.
C11_CondWaitReacquires ==
  \A t \in Threads, l \in Locks :
    /\ (op[t] = <<"cond_wait", l>> /\ WaitingOnCond(t)) => holder[l] # t
    /\ Returned(t, "cond_wait", l) =>
         /\ holder[l] = t
         /\ permit[t][WaiterSema(t)] >= 1
         /\ extra[WaiterSema(t)] >= permit[t][WaiterSema(t)]

\* A thread has returned from cond_wait after another thread took the lock
\* and signalled.
C11_Witness ==
  \E t, u \in Threads, l \in Locks :
    /\ t # u
    /\ Returned(t, "cond_wait", l)
    /\ holder[l] = t
    /\ op[u] = <<"lock_release", l>>
    /\ \E i \in 1..Len(wakes) : wakes[i].t = t /\ wakes[i].q = WaiterSema(t)

\* Entry t comes before entry u of condition c's queue: higher tag, or the
\* same tag and enqueued earlier.
TagBefore(c, t, u) ==
  \/ sema_priority[t] > sema_priority[u]
  \/ /\ sema_priority[t] = sema_priority[u]
     /\ LastPos(arrivals[CondQ(c)], t) < LastPos(arrivals[CondQ(c)], u)

\* The threads the step makes runnable.
MadeRunnable == {u \in Threads : status[u] = "blocked" /\ status'[u] # "blocked"}

\* C12: a step of cond_signal that changes the queue removes its front
\* entry only, that entry has the highest tag (earliest-enqueued among
\* equals), and its semaphore is the one posted next; the post makes
\* runnable that entry's thread and no other; cond_signal by the holder on
\* an empty queue changes nothing.
C12_SignalWakesHighest ==
  [][\A t \in Threads, c \in Conds :
       /\ (cur = t /\ cond_waiters'[c] # cond_waiters[c]
             /\ Len(cond_waiters'[c]) < Len(cond_waiters[c]))
            => /\ cond_waiters'[c] = Tail(cond_waiters[c])
               /\ \A u \in Range(cond_waiters'[c]) :
                    TagBefore(c, Head(cond_waiters[c]), u)
               /\ stack'[t][1] = <<"sema_up", WaiterSema(Head(cond_waiters[c]))>>
               /\ MadeRunnable = {}
       /\ \A w \in Threads :
            (At(t, "sema_up") /\ Arg(t) = WaiterSema(w) /\ stack'[t] # stack[t])
              => /\ MadeRunnable \subseteq {w}
                 /\ WaitingOnCond(w) => status'[w] = "ready"
                 /\ value'[WaiterSema(w)] = value[WaiterSema(w)] + 1
       /\ \A l \in Locks :
            (AtTop(t) /\ op'[t] = <<"cond_signal", l>> /\ budget' < budget
               /\ holder[l] = t /\ cond_waiters[c] = <<>>)
              => UNCHANGED <<value, waiters, holder, eff_priority, status, cur,
                             stack, cond_waiters, sema_priority, panic>>]_vars

\* A signal has woken a waiter whose tag equals that of a waiter still
\* queued, which was enqueued after it.
C12_Witness ==
  \E t, u \in Threads, c \in Conds :
    /\ cond_waiters[c] # <<>>
    /\ u = Head(cond_waiters[c])
    /\ t # u
    /\ sema_priority[t] = sema_priority[u]
    /\ LastPos(arrivals[CondQ(c)], t) < LastPos(arrivals[CondQ(c)], u)
    /\ LastPos(arrivals[CondQ(c)], t) > 0
    /\ wakes # <<>>
    /\ wakes[Len(wakes)].t = t
    /\ wakes[Len(wakes)].q = WaiterSema(t)


\* The label of the frame on top of the stack st, "none" when st is empty.
TopLabel(st) == IF st = <<>> THEN "none" ELSE st[1][1]

\* Thread w, inside cond_wait, has put its waiter on the queue (it is past
\* list_insert_ordered, line 384).
Enqueued(w) ==
  TopLabel(stack[w]) \notin
    {"cond_wait", "cond_wait_compare", "cond_wait_priority", "cond_wait_insert"}

\* A waiter of c that cond_signal has taken off the queue and that is still
\* inside cond_wait (c, l): it has put itself on the queue in this call and
\* is no longer on it.
Signalled(w, c, l) ==
  /\ op[w] = <<"cond_wait", l>>
  /\ stack[w] # <<>>
  /\ Enqueued(w)
  /\ w \notin Range(cond_waiters[c])
  /\ panic # "cond_wait"

\* The step with which thread t returns from a call of name.
ReturnsFrom(t, name) ==
  /\ op'[t][1] = name
  /\ stack'[t] = <<>>
  /\ panic' = "none"
  /\ stack[t] # <<>> \/ budget' # budget

\* C13: when cond_broadcast returns the waiter queue of the condition is
\* empty, and every waiter that was taken off the queue eventually returns
\* from cond_wait.
C13_BroadcastWakesAll ==
  /\ [][\A t \in Threads : \A c \in Conds :
          (/\ ReturnsFrom(t, "cond_broadcast")
           /\ stack[t] # <<>> => stack[t][1][2] = c)
          => cond_waiters'[c] = <<>>]_vars
  /\ \A w \in 1..FairThreads : \A c \in Conds : \A l \in 1..CondLocks :
       Signalled(w, c, l) ~> Returned(w, "cond_wait", l)

\* The same, for the runs in which the kernel does not stop.
C13_NoPanic ==
  \A w \in 1..FairThreads : \A c \in Conds : \A l \in 1..CondLocks :
    Signalled(w, c, l) ~> (Returned(w, "cond_wait", l) \/ panic # "none")

\* The number of times thread w has called cond_wait on c.
Waits(w, c) ==
  Cardinality({i \in 1..Len(arrivals[CondQ(c)]) : arrivals[CondQ(c)][i] = w})

\* The semaphore of w's current wait has been posted: it holds the post, or
\* w has taken it and is past its sema_down.
Posted(w) ==
  \/ value[WaiterSema(w)] = 1
  \/ \A i \in 1..Len(stack[w]) :
       /\ stack[w][i] # <<"sema_down", WaiterSema(w)>>
       /\ stack[w][i] # <<"thread_block", WaiterSema(w)>>

\* The step is a cond_wait on c by a thread t that has waited on c before.
WaitsAgain(t, c) ==
  /\ t \in Range(arrivals[CondQ(c)])
  /\ arrivals'[CondQ(c)] = Append(arrivals[CondQ(c)], t)

\* C14: a thread that calls cond_wait again is put on the queue and goes on
\* to release the lock, the waiters already on the queue stay in the same
\* relative order, and when a later cond_signal takes a thread that waited
\* again off the queue, that thread's semaphore is eventually posted.
C14_MesaReWait ==
  /\ [][\A t \in Threads : \A c \in Conds :
          WaitsAgain(t, c) =>
            /\ panic' = "none"
            /\ t \notin Range(cond_waiters[c])
            /\ Range(cond_waiters'[c]) = Range(cond_waiters[c]) \cup {t}
            /\ Len(cond_waiters'[c]) = Len(cond_waiters[c]) + 1
            /\ \A a, b \in Range(cond_waiters[c]) :
                 LastPos(cond_waiters[c], a) < LastPos(cond_waiters[c], b)
                   <=> LastPos(cond_waiters'[c], a) < LastPos(cond_waiters'[c], b)
            /\ stack'[t][1][1] = "lock_release"
            /\ value'[WaiterSema(t)] = 0]_vars
  /\ \A w \in 1..MesaThreads : \A c \in Conds : \A l \in 1..CondLocks :
       (Waits(w, c) >= 2 /\ Signalled(w, c, l)) ~> Posted(w)

\* A thread has waited twice and has been woken twice, and is back in the
\* lock_acquire of its second cond_wait or past it.
C14_Witness ==
  \E w \in Threads : \E c \in Conds :
    /\ Waits(w, c) = 2
    /\ permit[w][WaiterSema(w)] = 2
    /\ op[w][1] = "cond_wait"

\* A thread waits again while two other waiters are on the queue.
C14_TwoStay ==
  \E w \in Threads : \E c \in Conds :
    /\ Waits(w, c) = 2
    /\ Len(cond_waiters[c]) = 3
    /\ w \in Range(cond_waiters[c])

\* Thread t takes a step of its own.
StepOf(t) == stack'[t] # stack[t] \/ op'[t] # op[t]

C16_NoBlockInInterrupt ==
  [][/\ (intr_calls' # intr_calls /\ panic' # "lock_try_acquire") =>
          (/\ panic' = "none"
           /\ cur' = cur
           /\ (cur # Idle => status'[cur] = "running"))
     /\ (ticks' # ticks) =>
          (/\ panic' = "none"
           /\ (cur # Idle => status'[cur] \in {"running", "ready"}))]_vars

\* The step is a call of name on l by the running thread.
CallsLock(name, l) ==
  /\ budget' = budget - 1
  /\ cur # Idle
  /\ op'[cur] = <<name, l>>

\* The kernel stops at the assertion of name with the locks, the
\* semaphores and the priorities as they were.
FailsFast(name) ==
  /\ panic' = name
  /\ UNCHANGED <<holder, value, waiters, eff_priority, status, cur>>

\* C17: lock_release by a thread that does not hold the lock, and
\* lock_acquire and lock_try_acquire by the thread that holds it, stop at the
\* assertion, and holder, semaphore value, waiter queue and effective
\* priorities are as before the call, then and ever after.
C17_FailFast ==
  [][/\ \A l \in Locks :
          /\ (CallsLock("lock_release", l) /\ holder[l] # cur)
               => FailsFast("lock_release")
          /\ (CallsLock("lock_acquire", l) /\ holder[l] = cur)
               => FailsFast("lock_acquire")
          /\ (CallsLock("lock_try_acquire", l) /\ holder[l] = cur)
               => FailsFast("lock_try_acquire")
     /\ (panic # "none")
          => UNCHANGED <<holder, value, waiters, eff_priority, status, cur>>]_vars

\* A thread has called lock_release on a lock another thread holds, and the
\* kernel has stopped.
C17_Witness ==
  \E l \in Locks :
    /\ panic = "lock_release"
    /\ cur # Idle
    /\ op[cur] = <<"lock_release", l>>
    /\ holder[l] \notin {NULL, cur}

\* The same for lock_acquire by the holder.
C17_WitnessAcquire ==
  \E l \in Locks : panic = "lock_acquire" /\ holder[l] = cur

\* The same for lock_try_acquire by the holder.
C17_WitnessTry ==
  \E l \in Locks : panic = "lock_try_acquire" /\ holder[l] = cur

\* The step is a call of timer_sleep (d) by the running thread.
CallsTimerSleep(d) ==
  /\ budget' = budget - 1
  /\ cur # Idle
  /\ op'[cur] = <<"timer_sleep", d>>

\* C18: a call of timer_sleep (d) with d <= 0 returns in the same step: the
\* caller is still running, it is not put on the sleep queue, and its
\* wakeup_time and the tick counter are unchanged.
C18_SleepNonPositive ==
  [][\A d \in Durations :
       (CallsTimerSleep(d) /\ d <= 0) =>
         /\ stack'[cur] = <<>>
         /\ cur' = cur
         /\ status'[cur] = "running"
         /\ UNCHANGED <<sleeping_threads, wakeup_time, ticks, panic>>]_vars

\* timer_sleep (0) has returned while another thread sleeps.
C18_Witness ==
  \E t \in Threads :
    /\ op[t] = <<"timer_sleep", 0>>
    /\ stack[t] = <<>>
    /\ status[t] = "running"
    /\ SleepingThreads # <<>>
    /\ t \notin Range(SleepingThreads)

\* The threads on the sleep queue or on the waiter queue of a semaphore.
Queued ==
  Range(SleepingThreads) \cup UNION {Range(waiters[s]) : s \in SemaIds}

\* C19: the tick handler never runs between the insertion of a thread into
\* the sleep queue or a waiter queue and the suspension of that thread:
\* whenever it runs, every thread on those queues is blocked.
C19_QueuesUnderIntrOff ==
  [][ticks' # ticks => \A t \in Queued : status[t] = "blocked"]_vars

\* C20: for every lock, in every state, the holder is set exactly when the
\* value of the lock's semaphore is 0.
C20_HolderIffZero ==
  \A l \in Locks : (holder[l] # NULL) <=> (value[LockSema(l)] = 0)

\* The sleep queue is in ascending order of wakeup_time.
SleepSorted ==
  \A i, j \in 1..Len(SleepingThreads) :
    i < j => wakeup_time[SleepingThreads[i]] <= wakeup_time[SleepingThreads[j]]

\* No thread is on the sleep queue twice.
SleepOnce ==
  \A i, j \in 1..Len(SleepingThreads) :
    i # j => SleepingThreads[i] # SleepingThreads[j]

\* C21: the sleep queue is sorted ascending by wakeup tick, threads with
\* equal wakeup ticks are in the order in which they called timer_sleep, and
\* no thread is on it twice.
C21_SleepQueueSorted ==
  /\ SleepSorted
  /\ SleepOnce
  /\ \A i, j \in 1..Len(SleepingThreads) :
       (/\ i < j
        /\ wakeup_time[SleepingThreads[i]] = wakeup_time[SleepingThreads[j]])
       => LastPos(arrivals[SleepCalls], SleepingThreads[i])
            < LastPos(arrivals[SleepCalls], SleepingThreads[j])

\* The threads the step takes off the sleep queue.
Unslept == Range(SleepingThreads) \ Range(ListSeq(sleeping_threads'))

\* C22: a step that changes the tick counter is the tick handler and no
\* operation of a thread: it adds exactly 1, it takes off the sleep queue
\* only threads whose wakeup_time is at most the new tick count, and when
\* it returns no thread left on the queue has a wakeup_time that small, the
\* threads taken off were blocked and are runnable, and no other blocked
\* thread was made runnable.
C22_TickHandler ==
  [][(ticks' # ticks) =>
       (/\ ticks' = ticks + 1
        /\ UNCHANGED <<stack, op, wakeup_time>>
        /\ \A t \in Unslept : wakeup_time[t] <= ticks'
        /\ \E k \in 0..Len(SleepingThreads) :
             ListSeq(sleeping_threads') = SubSeq(SleepingThreads, k + 1, Len(SleepingThreads))
        /\ (panic' = "none") =>
             (/\ \A t \in Range(ListSeq(sleeping_threads')) : wakeup_time[t] > ticks'
              /\ \A t \in Unslept :
                   status[t] = "blocked" /\ status'[t] \in {"ready", "running"}
              /\ \A t \in Threads \ Unslept :
                   status[t] = "blocked" => status'[t] = "blocked"))]_vars

\* Both threads have completed their turns, and both semaphores are at 0
\* with nobody waiting.
PingDone ==
  /\ panic = "none"
  /\ Finished(SelfTest) /\ Finished(TestHelper)
  /\ \A i \in {0, 1} : value[TestSema(i)] = 0 /\ waiters[TestSema(i)] = <<>>

\* C23: the two threads of the semaphore ping-pong complete all their
\* turns, whatever their priorities and however the timer interrupt
\* interleaves them, and from then on both semaphores have value 0 and empty
\* waiter queues.
C23_PingPongTerminates == <>[]PingDone

\* The ping-pong is over, and each thread was woken from a sema_down at
\* least once.
C23_Witness ==
  /\ PingDone
  /\ \E i \in 1..Len(wakes) : wakes[i].t = SelfTest /\ wakes[i].blocked
  /\ \E i \in 1..Len(wakes) : wakes[i].t = TestHelper /\ wakes[i].blocked

\* The step is the donation of lock_acquire (l) by thread t: the write
\* lock->holder->eff_priority = donation, or the fault in it.
Donates(t, l) ==
  /\ cur = t
  /\ TopLabel(stack[t]) = "lock_acquire_donate"
  /\ stack[t][1][2] = l
  /\ stack'[t] # stack[t] \/ panic' # panic

\* The effective priority of h after the step.
EffectivePriorityAfter(h) ==
  IF eff_priority'[h] > priority'[h] THEN eff_priority'[h] ELSE priority'[h]

\* C24: the donation step of lock_acquire lowers no thread's effective
\* priority.
C24_DonationNeverLowers ==
  [][\A t \in Threads : \A l \in Locks :
       Donates(t, l) =>
         \A h \in Threads : EffectivePriorityAfter(h) >= EffectivePriority(h)]_vars

\* C25: the donation step of lock_acquire (l) does not fault on an absent
\* holder, and the thread whose eff_priority it changes holds l at that
\* moment.
C25_DonationTargetsHolder ==
  [][\A t \in Threads : \A l \in Locks :
       Donates(t, l) =>
         /\ panic' # "null_holder"
         /\ \A h \in Threads :
              eff_priority'[h] # eff_priority[h] => holder[l] = h]_vars

\* The same without the fault: the write alone.
C25_NoStaleWrite ==
  [][\A t \in Threads : \A l \in Locks :
       Donates(t, l) =>
         \A h \in Threads :
           eff_priority'[h] # eff_priority[h] => holder[l] = h]_vars
====
